---- MODULE Spec2Model ----
\* Verification model of scripts/seq2seq_attention.py: the attention encoder-decoder
\* (Encoder, Attention, Decoder, Seq2Seq.forward) and the train / evaluate / epoch loop.
\*
\* Tensors are modelled with one integer feature per vector (embedding, hidden state),
\* taken modulo Mod; the library kernels (nn.Embedding, nn.GRU, nn.Linear, tanh) are
\* deterministic integer functions of their inputs and of the parameter state, so that
\* every data dependency of the code is a data dependency of the model.  Index t of the
\* code (0-based) is position t + 1 of the sequences below.
EXTENDS Integers, Sequences, FiniteSets, TLC

\* ------------------------------------------------------------------ bounds
MaxBatch == 2      \* columns of a batch (batch_size examples or fewer)
MaxLen == 3        \* longest target sequence, <sos> and <eos> included
MaxSrcLen == 2     \* longest source sequence, <sos> and <eos> included
Mod == 3           \* number of values one feature takes
NumParams == 2     \* number of parameter states
DrawRes == 2       \* random.random() returns d / DrawRes, d in 0..DrawRes-1
NumBatches == 2    \* len(iterator): batches per pass over an iterator
n_epochs == 2      \* epochs of the run

\* ------------------------------------------------------------------ vocabulary
\* torchtext's Vocab puts the specials first: <unk>, <pad>, then init and eos token.
UNK == 0
pad_idx == 1
SOS == 2
EOS == 3
num_output_features == 4
Vocab == 0..(num_output_features - 1)

\* Dropout(p = 0.5) scales what it keeps by 1 / (1 - p).
dropout_scale == 2
\* clip_grad_norm_ threshold
clip == 1

\* teacher_forcing_ratio values as fractions <<numerator, denominator>>
TF_DEFAULT == <<1, 2>>
TF_OFF == <<0, 1>>
TF_ALWAYS == <<1, 1>>

\* ------------------------------------------------------------------ helpers
\* f as a table of its values: every value is computed once, here
Table(f) == f @@ <<>>

RECURSIVE SumSeq(_)
SumSeq(s) == IF s = <<>> THEN 0 ELSE Head(s) + SumSeq(Tail(s))

RECURSIVE Reverse(_)
Reverse(s) == IF s = <<>> THEN <<>> ELSE Append(Reverse(Tail(s)), Head(s))

RECURSIVE Flatten(_)
Flatten(rows) == IF rows = <<>> THEN <<>> ELSE Head(rows) \o Flatten(Tail(rows))

RECURSIVE Pow2(_)
Pow2(n) == IF n = 0 THEN 1 ELSE 2 * Pow2(n - 1)

RECURSIVE Log2Ceil(_)
Log2Ceil(n) == IF n <= 1 THEN 0 ELSE 1 + Log2Ceil((n + 1) \div 2)

\* ------------------------------------------------------------------ data
\* A Field example: <sos>, k words, <eos>, padded on the right to the batch's length.
Sentence(k, len) ==
    [i \in 1..len |-> IF i = 1 THEN SOS
                      ELSE IF i <= k + 1 THEN UNK
                      ELSE IF i = k + 2 THEN EOS
                      ELSE pad_idx]

\* seq_len * bs tensor whose column b is the sentence of ks[b] words.
Tensor(ks, len) == [i \in 1..len |-> [b \in 1..Len(ks) |-> Sentence(ks[b], len)[i]]]

WordCounts(bs, len) == [1..bs -> 0..(IF len >= 2 THEN len - 2 ELSE 0)]

MaxOf(ks) == CHOOSE m \in {ks[b] : b \in 1..Len(ks)} : \A b \in 1..Len(ks) : ks[b] <= m

\* The batches an iterator yields: bs examples, each side padded to the longest
\* example of the batch.
Batches ==
    UNION {{[src |-> Tensor(sk, MaxOf(sk) + 2), trg |-> Tensor(tk, MaxOf(tk) + 2)] :
                sk \in WordCounts(bs, MaxSrcLen), tk \in WordCounts(bs, MaxLen)} :
           bs \in 1..MaxBatch}

\* ------------------------------------------------------------------ library kernels
\* nn.Embedding: a lookup table, one row per token id.
Embedding(tok, p) == (tok + p) % Mod

\* nn.Dropout: identity in evaluation mode; in training mode an element is zeroed
\* where the mask says so and scaled otherwise.
Dropout(x, drop, training) ==
    IF training THEN (IF drop THEN 0 ELSE (dropout_scale * x) % Mod) ELSE x

\* Masks a dropout call can draw for n elements: none in evaluation mode.
DropMasks(n, training) == IF training THEN [1..n -> BOOLEAN] ELSE {[i \in 1..n |-> FALSE]}
DropMasks2(rows, n, training) == [1..rows -> DropMasks(n, training)]

\* One nn.GRU cell update: new state from input x and previous state h.
GRUCell(x, h, p) == (x + 2 * h + p + 1) % Mod

\* nn.GRU over a sequence from initial state h: the state after every position.
RECURSIVE GRUSeq(_, _, _)
GRUSeq(xs, h, p) ==
    IF xs = <<>> THEN <<>>
    ELSE LET h1 == GRUCell(Head(xs), h, p) IN <<h1>> \o GRUSeq(Tail(xs), h1, p)

\* torch.tanh(self.fc(torch.cat((hidden[-2], hidden[-1]), dim = 1)))
EncoderFC(hf, hb, p) == (hf + 2 * hb + p) % Mod

\* Encoder.forward: (outputs, hidden).  outputs[s][b] is the pair of the forward and
\* the backward state at position s; hidden[b] is the decoder's initial state.
EncoderForward(src_, p, training, mask) ==
    LET S == Len(src_)
        bs == Len(src_[1])
        embedded == Table([s \in 1..S |-> Table([b \in 1..bs |->
                        Dropout(Embedding(src_[s][b], p), mask[s][b], training)])])
        fwd == Table([b \in 1..bs |-> GRUSeq(Table([s \in 1..S |-> embedded[s][b]]), 0, p)])
        bwd == Table([b \in 1..bs |->
                   Reverse(GRUSeq(Reverse(Table([s \in 1..S |-> embedded[s][b]])), 0, p + 1))])
    IN [outputs |-> Table([s \in 1..S |-> Table([b \in 1..bs |-> <<fwd[b][s], bwd[b][s]>>])]),
        hidden |-> Table([b \in 1..bs |-> EncoderFC(fwd[b][S], bwd[b][1], p)])]

\* Attention.forward for one batch element: softmax over the source positions of the
\* summed energies, as fractions num[s] / den.
AttentionForward(h, enc_col, p) ==
    LET num == Table([s \in 1..Len(enc_col) |->
                        Pow2((h + enc_col[s][1] + enc_col[s][2] + p) % Mod)])
    IN [num |-> num, den |-> SumSeq(num)]

\* Decoder._weighted_encoder_rep for one batch element: bmm(a, encoder_outputs).
WeightedEncoderRep(h, enc_col, p) ==
    LET a == AttentionForward(h, enc_col, p)
        comp(c) == SumSeq(Table([s \in 1..Len(enc_col) |-> a.num[s] * enc_col[s][c]])) \div a.den
    IN <<comp(1), comp(2)>>

\* self.out, an nn.Linear over cat(output, weighted_encoder_rep, embedded): the score of
\* token v.  Every row of the layer weighs the three parts differently.
OutLayer(v, h, w, e, p) ==
    CASE v % 4 = 0 -> h % Mod
      [] v % 4 = 1 -> (e + p) % Mod
      [] v % 4 = 2 -> (w + 1) % Mod
      [] OTHER -> (h + w + e + 2) % Mod

\* Decoder.forward: (output, decoder_hidden); output[b] is the row of scores over the
\* target vocabulary.
DecoderForward(input, decoder_hidden, encoder_outputs, p, training, mask) ==
    LET bs == Len(input)
        enc_col(b) == Table([s \in 1..Len(encoder_outputs) |-> encoder_outputs[s][b]])
        embedded == Table([b \in 1..bs |->
                        Dropout(Embedding(input[b], p + 1), mask[b], training)])
        rep == Table([b \in 1..bs |-> WeightedEncoderRep(decoder_hidden[b], enc_col(b), p)])
        h2 == Table([b \in 1..bs |->
                  GRUCell(embedded[b] + rep[b][1] + rep[b][2], decoder_hidden[b], p)])
    IN [output |-> Table([b \in 1..bs |-> Table([v \in Vocab |->
                      OutLayer(v, h2[b], rep[b][1] + rep[b][2], embedded[b], p)])]),
        hidden |-> h2]

\* output.max(1)[1] for one row: the index of the first maximal score.
Top1(row) ==
    CHOOSE v \in Vocab : /\ \A u \in Vocab : row[u] <= row[v]
                         /\ \A u \in Vocab : u < v => row[u] < row[v]

\* ------------------------------------------------------------------ state
VARIABLES
    phase,                  \* the function the script is in: "train", "valid", "test",
                            \* "done"; "call" for a direct call of Seq2Seq.forward
    epoch,                  \* epoch of the epoch loop
    bidx,                   \* batches the running train / evaluate call has finished
    pc,                     \* position inside the running function
    training,               \* model.training: set by model.train() / model.eval()
    params,                 \* model.parameters()
    grad,                   \* the parameters' accumulated .grad
    opt,                    \* optimizer state: [steps, exp_avg]
    epoch_loss,             \* epoch_loss of the running call, a fraction
    ret,                    \* the value the call that has just returned gave back
    src, trg,               \* the batch
    teacher_forcing_ratio,  \* argument of the running forward call
    fwd,                    \* locals of the running forward call
    loss,                   \* loss of the batch: [sum, n] is sum / n
    ops,                    \* operations done on the batch so far, in order
    tok,                    \* per-token totals of the running call: [sum, n]
    hist                    \* random values consumed by a direct call of forward

vars == <<phase, epoch, bidx, pc, training, params, grad, opt, epoch_loss, ret, src, trg,
          teacher_forcing_ratio, fwd, loss, ops, tok, hist>>

Params == 0..(NumParams - 1)
Draws == 0..(DrawRes - 1)

\* ------------------------------------------------------------------ Seq2Seq.forward
\* torch.zeros(max_len, batch_size, trg_vocab_size)
Zeros(max_len, batch_size) == [i \in 1..max_len |-> [b \in 1..batch_size |-> [v \in Vocab |-> 0]]]

\* Variants of the comparison below: inclusive, and one that leaves the top draw out.
TeacherForceInclusive(d, ratio) == d * ratio[2] <= ratio[1] * DrawRes
TeacherForceBelowTop(d, ratio) == d * ratio[2] + 1 < ratio[1] * DrawRes

\* random.random() < teacher_forcing_ratio, for the draw d / DrawRes
TeacherForce(d, ratio) == d * ratio[2] < ratio[1] * DrawRes

\* Variant of the choice below: the decision applied to the first column only.
NextInputFirstColumn(teacher_force, trg_t, dec_output) ==
    Table([b \in 1..Len(dec_output) |->
              IF teacher_force /\ b = 1 THEN trg_t[b] ELSE Top1(dec_output[b])])

\* output = (trg[t] if teacher_force else top1)
NextInput(teacher_force, trg_t, dec_output) ==
    IF teacher_force THEN trg_t ELSE Table([b \in 1..Len(dec_output) |-> Top1(dec_output[b])])

\* Variant of the write below: one position early.
WriteOutputEarly(outputs, t, dec_output) == [outputs EXCEPT ![t] = dec_output]

\* outputs[t] = output
WriteOutput(outputs, t, dec_output) == [outputs EXCEPT ![t + 1] = dec_output]

\* The call up to the loop: the outputs buffer, the encoder, the first decoder input.
ForwardEnter(src_, trg_, p, mode, mask) ==
    LET e == EncoderForward(src_, p, mode, mask)
    IN [outputs |-> Zeros(Len(trg_), Len(src_[1])),
        encoder_outputs |-> e.outputs,
        hidden |-> e.hidden,
        output |-> trg_[1],
        t |-> 1,
        enc_calls |-> 1,        \* calls of self.encoder
        dec_calls |-> <<>>,     \* the t of every call of self.decoder
        draws |-> 0,            \* calls of random.random()
        draws_used |-> 0]       \* draws whose choice was fed to self.decoder

\* One iteration of the loop over range(1, max_len).
ForwardStep(f, trg_, ratio, p, mode, d, mask) ==
    LET r == DecoderForward(f.output, f.hidden, f.encoder_outputs, p, mode, mask)
    IN [f EXCEPT !.outputs = WriteOutput(@, f.t, r.output),
                 !.hidden = r.hidden,
                 !.output = NextInput(TeacherForce(d, ratio), trg_[f.t + 1], r.output),
                 !.t = @ + 1,
                 !.dec_calls = Append(@, f.t),
                 !.draws = @ + 1,
                 !.draws_used = IF f.t > 1 THEN @ + 1 ELSE @]

\* Variant of the loop end below: also stop once <eos> is the next input of every column.
LoopDoneOnEos(f, trg_) ==
    \/ f.t >= Len(trg_)
    \/ f.t > 1 /\ \A b \in 1..Len(f.output) : f.output[b] = EOS

\* range(1, max_len) is exhausted
LoopDone(f, trg_) == f.t >= Len(trg_)

NoForward == [outputs |-> <<>>, encoder_outputs |-> <<>>, hidden |-> <<>>, output |-> <<>>,
              t |-> 0, enc_calls |-> 0, dec_calls |-> <<>>, draws |-> 0, draws_used |-> 0]

NoHist == [enc_mask |-> <<>>, draws |-> <<>>, masks |-> <<>>]

\* Seq2Seq.forward as a function of its arguments, the model's state and the random
\* values it consumes: draws[t] is the random.random() draw and masks[t] the decoder's
\* dropout mask of iteration t, enc_mask the encoder's dropout mask.
RECURSIVE ForwardLoop(_, _, _, _, _, _, _)
ForwardLoop(f, trg_, ratio, p, mode, draws, masks) ==
    IF LoopDone(f, trg_) THEN f.outputs
    ELSE ForwardLoop(ForwardStep(f, trg_, ratio, p, mode, draws[f.t], masks[f.t]),
                     trg_, ratio, p, mode, draws, masks)

Forward(src_, trg_, ratio, p, mode, draws, enc_mask, masks) ==
    ForwardLoop(ForwardEnter(src_, trg_, p, mode, enc_mask), trg_, ratio, p, mode, draws, masks)

\* ------------------------------------------------------------------ direct calls of forward
\* Seq2Seq.forward called on any batch, in either mode, with teacher forcing off, at its
\* default or always on.  hist records the random values the call consumed.
CallTensors(bs, len) == {Tensor(ks, len) : ks \in WordCounts(bs, len)}

InitCall ==
    /\ phase = "call" /\ epoch = 0 /\ bidx = 0 /\ pc = "forward"
    /\ training \in BOOLEAN
    /\ params \in Params
    /\ grad = 0 /\ opt = [steps |-> 0, exp_avg |-> 0]
    /\ epoch_loss = [num |-> 0, den |-> 1] /\ ret = [num |-> 0, den |-> 1]
    /\ \E bs \in 1..MaxBatch, len \in 1..MaxLen :
          /\ src \in CallTensors(bs, MaxSrcLen)
          /\ trg \in CallTensors(bs, len)
    /\ teacher_forcing_ratio \in {TF_OFF, TF_DEFAULT, TF_ALWAYS}
    /\ fwd = NoForward
    /\ hist = NoHist
    /\ loss = [sum |-> 0, n |-> 0] /\ ops = <<>> /\ tok = [sum |-> 0, n |-> 0]

mainVars == <<phase, epoch, bidx, training, params, grad, opt, epoch_loss, ret, src, trg,
              teacher_forcing_ratio, loss, ops, tok>>

CallEnter ==
    /\ phase = "call" /\ pc = "forward"
    /\ \E m \in DropMasks2(Len(src), Len(src[1]), training) :
          /\ fwd' = ForwardEnter(src, trg, params, training, m)
          /\ hist' = [hist EXCEPT !.enc_mask = m]
    /\ pc' = "decode"
    /\ UNCHANGED mainVars

CallStep ==
    /\ phase = "call" /\ pc = "decode" /\ ~LoopDone(fwd, trg)
    /\ \E d \in Draws, m \in DropMasks(Len(src[1]), training) :
          /\ fwd' = ForwardStep(fwd, trg, teacher_forcing_ratio, params, training, d, m)
          /\ hist' = [hist EXCEPT !.draws = Append(@, d), !.masks = Append(@, m)]
    /\ UNCHANGED pc
    /\ UNCHANGED mainVars

CallReturn ==
    /\ phase = "call" /\ pc = "decode" /\ LoopDone(fwd, trg)
    /\ pc' = "returned"
    /\ UNCHANGED <<fwd, hist>>
    /\ UNCHANGED mainVars

NextCall == CallEnter \/ CallStep \/ CallReturn

SpecCall == InitCall /\ [][NextCall]_vars

\* ------------------------------------------------------------------ loss, gradient, optimizer
\* A fraction [num, den] in lowest terms; den = 0 is NaN.
RECURSIVE GCD(_, _)
GCD(a, b) == IF b = 0 THEN a ELSE GCD(b, a % b)
Frac(num, den) ==
    IF den = 0 THEN [num |-> 0, den |-> 0]
    ELSE LET g == GCD(num, den) IN [num |-> num \div g, den |-> den \div g]
FracAdd(x, y) == Frac(x.num * y.den + y.num * x.den, x.den * y.den)
FracDiv(x, k) == Frac(x.num, x.den * k)

\* -log_softmax(row)[target], in bits: the rounded-up log of the partition sum minus
\* the target's score.
NLL(row, target) ==
    Log2Ceil(SumSeq(Table([v \in 1..num_output_features |-> Pow2(row[v - 1])]))) - row[target]

\* nn.CrossEntropyLoss(ignore_index)(input, target), reduction "mean": the sum of the
\* losses of the targets that are not ignore_index, over their number.
CrossEntropyLoss(input, target, ignore_index) ==
    [sum |-> SumSeq(Table([i \in 1..Len(target) |->
                       IF target[i] = ignore_index THEN 0 ELSE NLL(input[i], target[i])])),
     n |-> Cardinality({i \in 1..Len(target) : target[i] # ignore_index})]

\* Variant of the loss below: time step 0 is kept.
CriterionKeepFirst(outputs, trg_) == CrossEntropyLoss(Flatten(outputs), Flatten(trg_), pad_idx)

\* criterion(output[1:].view(-1, output.shape[-1]), trg[1:].view(-1))
Criterion(outputs, trg_) ==
    CrossEntropyLoss(Flatten(Tail(outputs)), Flatten(Tail(trg_)), pad_idx)

\* loss.item() as a fraction
Item(l) == Frac(l.sum, l.n)

Sign(x) == IF x > 0 THEN 1 ELSE IF x < 0 THEN -1 ELSE 0

\* The gradient loss.backward() adds to .grad: over the positions that count in the
\* loss, the side on which the predicted token misses the target, as -1, 0 or 1.
BatchGrad(outputs, trg_) ==
    SumSeq(Table([i \in 1..(Len(trg_) - 1) |->
        SumSeq(Table([b \in 1..Len(trg_[1]) |->
            IF trg_[i + 1][b] = pad_idx THEN 0
            ELSE Sign(Top1(outputs[i + 1][b]) - trg_[i + 1][b])]))]))

\* Variant of zero_grad below: the gradients are left as they are.
ZeroGradSkipped(g) == g

\* optimizer.zero_grad()
ZeroGrad(g) == 0

\* torch.nn.utils.clip_grad_norm_(model.parameters(), max_norm): a gradient whose norm
\* exceeds max_norm is scaled down to norm max_norm.
ClipGradNorm(g, max_norm) ==
    IF g > max_norm THEN max_norm ELSE IF g < -max_norm THEN -max_norm ELSE g

\* optimizer.step() of optim.Adam: update the running average of the gradient, move
\* the parameters against it.
AdamStep(o, p, g) ==
    LET m == ClipGradNorm(o.exp_avg + g, 1)
    IN [opt |-> [steps |-> o.steps + 1, exp_avg |-> m],
        params |-> (p + NumParams - m) % NumParams]

\* ------------------------------------------------------------------ the script
EvalPhases == {"valid", "test"}
Zero == [num |-> 0, den |-> 1]
NoLoss == [sum |-> 0, n |-> 0]

Init ==
    /\ phase = "train" /\ epoch = 0 /\ bidx = 0 /\ pc = "enter"
    /\ training = TRUE
    /\ params \in Params
    /\ grad = 0 /\ opt = [steps |-> 0, exp_avg |-> 0]
    /\ epoch_loss = Zero /\ ret = Zero
    /\ src = <<>> /\ trg = <<>> /\ teacher_forcing_ratio = TF_DEFAULT
    /\ fwd = NoForward /\ hist = NoHist
    /\ loss = NoLoss /\ ops = <<>> /\ tok = [sum |-> 0, n |-> 0]

\* Variant of the entry of train below: the mode is left as it is.
TrainEnterKeepMode ==
    /\ phase = "train" /\ pc = "enter"
    /\ epoch_loss' = Zero /\ bidx' = 0 /\ tok' = [sum |-> 0, n |-> 0] /\ ret' = Zero
    /\ pc' = "fetch"
    /\ UNCHANGED <<phase, epoch, training, params, grad, opt, src, trg,
                   teacher_forcing_ratio, fwd, loss, ops, hist>>

\* train: model.train(); epoch_loss = 0
TrainEnter ==
    /\ phase = "train" /\ pc = "enter"
    /\ training' = TRUE
    /\ epoch_loss' = Zero /\ bidx' = 0 /\ tok' = [sum |-> 0, n |-> 0] /\ ret' = Zero
    /\ pc' = "fetch"
    /\ UNCHANGED <<phase, epoch, params, grad, opt, src, trg,
                   teacher_forcing_ratio, fwd, loss, ops, hist>>

\* train: the next batch of the iterator; optimizer.zero_grad(); model(src, trg) is called
TrainBatch ==
    /\ phase = "train" /\ pc = "fetch" /\ bidx < NumBatches
    /\ \E batch \in Batches : src' = batch.src /\ trg' = batch.trg
    /\ grad' = ZeroGrad(grad)
    /\ ops' = <<"zero_grad">>
    /\ teacher_forcing_ratio' = TF_DEFAULT
    /\ pc' = "forward"
    /\ UNCHANGED <<phase, epoch, bidx, training, params, opt, epoch_loss, ret, fwd, loss,
                   tok, hist>>

fwdFrame == <<phase, epoch, bidx, training, params, grad, opt, epoch_loss, ret, src, trg,
              teacher_forcing_ratio, loss, tok, hist>>

\* forward, up to the loop
FwdEnter ==
    /\ phase \in {"train", "valid", "test"} /\ pc = "forward"
    /\ \E m \in DropMasks2(Len(src), Len(src[1]), training) :
          fwd' = ForwardEnter(src, trg, params, training, m)
    /\ pc' = "decode"
    /\ UNCHANGED ops
    /\ UNCHANGED fwdFrame

\* forward, one iteration of the loop
FwdStep ==
    /\ phase \in {"train", "valid", "test"} /\ pc = "decode" /\ ~LoopDone(fwd, trg)
    /\ \E d \in Draws, m \in DropMasks(Len(src[1]), training) :
          fwd' = ForwardStep(fwd, trg, teacher_forcing_ratio, params, training, d, m)
    /\ UNCHANGED <<pc, ops>>
    /\ UNCHANGED fwdFrame

\* forward returns outputs; its other locals are gone
FwdReturn ==
    /\ phase \in {"train", "valid", "test"} /\ pc = "decode" /\ LoopDone(fwd, trg)
    /\ fwd' = [NoForward EXCEPT !.outputs = fwd.outputs]
    /\ ops' = Append(ops, "forward")
    /\ pc' = "loss"
    /\ UNCHANGED fwdFrame

\* train: loss = criterion(output, trg)
TrainLoss ==
    /\ phase = "train" /\ pc = "loss"
    /\ loss' = Criterion(fwd.outputs, trg)
    /\ ops' = Append(ops, "loss")
    /\ pc' = "backward"
    /\ UNCHANGED <<phase, epoch, bidx, training, params, grad, opt, epoch_loss, ret, src, trg,
                   teacher_forcing_ratio, fwd, tok, hist>>

\* train: loss.backward()
TrainBackward ==
    /\ phase = "train" /\ pc = "backward"
    /\ grad' = grad + BatchGrad(fwd.outputs, trg)
    /\ ops' = Append(ops, "backward")
    /\ pc' = "clip"
    /\ UNCHANGED <<phase, epoch, bidx, training, params, opt, epoch_loss, ret, src, trg,
                   teacher_forcing_ratio, fwd, loss, tok, hist>>

\* train: torch.nn.utils.clip_grad_norm_(model.parameters(), clip)
TrainClip ==
    /\ phase = "train" /\ pc = "clip"
    /\ grad' = ClipGradNorm(grad, clip)
    /\ ops' = Append(ops, "clip")
    /\ pc' = "step"
    /\ UNCHANGED <<phase, epoch, bidx, training, params, opt, epoch_loss, ret, src, trg,
                   teacher_forcing_ratio, fwd, loss, tok, hist>>

\* train: optimizer.step()
TrainStep ==
    /\ phase = "train" /\ pc = "step"
    /\ LET r == AdamStep(opt, params, grad) IN opt' = r.opt /\ params' = r.params
    /\ ops' = Append(ops, "step")
    /\ pc' = "accum"
    /\ UNCHANGED <<phase, epoch, bidx, training, grad, epoch_loss, ret, src, trg,
                   teacher_forcing_ratio, fwd, loss, tok, hist>>

\* epoch_loss += loss.item(); the iteration is over and so are its locals
Accumulate ==
    /\ phase \in {"train", "valid", "test"} /\ pc = "accum"
    /\ epoch_loss' = FracAdd(epoch_loss, Item(loss))
    /\ tok' = [sum |-> tok.sum + loss.sum, n |-> tok.n + loss.n]
    /\ bidx' = bidx + 1
    /\ src' = <<>> /\ trg' = <<>> /\ fwd' = NoForward /\ loss' = NoLoss /\ ops' = <<>>
    /\ pc' = "fetch"
    /\ UNCHANGED <<phase, epoch, training, params, grad, opt, ret,
                   teacher_forcing_ratio, hist>>

\* train: return epoch_loss / len(iterator); the epoch loop calls evaluate on valid_iterator
TrainReturn ==
    /\ phase = "train" /\ pc = "fetch" /\ bidx = NumBatches
    /\ ret' = FracDiv(epoch_loss, NumBatches)
    /\ phase' = "valid" /\ pc' = "enter"
    /\ UNCHANGED <<epoch, bidx, training, params, grad, opt, epoch_loss, src, trg,
                   teacher_forcing_ratio, fwd, loss, ops, tok, hist>>

\* evaluate: model.eval(); epoch_loss = 0
EvalEnter ==
    /\ phase \in EvalPhases /\ pc = "enter"
    /\ training' = FALSE
    /\ epoch_loss' = Zero /\ bidx' = 0 /\ tok' = [sum |-> 0, n |-> 0] /\ ret' = Zero
    /\ pc' = "fetch"
    /\ UNCHANGED <<phase, epoch, params, grad, opt, src, trg,
                   teacher_forcing_ratio, fwd, loss, ops, hist>>

\* evaluate: the next batch of the iterator; model(src, trg, 0) is called
EvalBatch ==
    /\ phase \in EvalPhases /\ pc = "fetch" /\ bidx < NumBatches
    /\ \E batch \in Batches : src' = batch.src /\ trg' = batch.trg
    /\ ops' = <<>>
    /\ teacher_forcing_ratio' = TF_OFF
    /\ pc' = "forward"
    /\ UNCHANGED <<phase, epoch, bidx, training, params, grad, opt, epoch_loss, ret, fwd,
                   loss, tok, hist>>

\* Variant of the loss step of evaluate below: the loss is also backpropagated.
EvalLossBackward ==
    /\ phase \in EvalPhases /\ pc = "loss"
    /\ loss' = Criterion(fwd.outputs, trg)
    /\ grad' = grad + BatchGrad(fwd.outputs, trg)
    /\ ops' = Append(ops, "loss")
    /\ pc' = "accum"
    /\ UNCHANGED <<phase, epoch, bidx, training, params, opt, epoch_loss, ret, src, trg,
                   teacher_forcing_ratio, fwd, tok, hist>>

\* evaluate: loss = criterion(output, trg), under torch.no_grad()
EvalLoss ==
    /\ phase \in EvalPhases /\ pc = "loss"
    /\ loss' = Criterion(fwd.outputs, trg)
    /\ ops' = Append(ops, "loss")
    /\ pc' = "accum"
    /\ UNCHANGED <<phase, epoch, bidx, training, params, grad, opt, epoch_loss, ret, src, trg,
                   teacher_forcing_ratio, fwd, tok, hist>>

\* evaluate: return epoch_loss / len(iterator).  After the validation pass the epoch
\* loop prints and goes on to the next epoch, or after the last one to the test pass.
EvalReturn ==
    /\ phase \in EvalPhases /\ pc = "fetch" /\ bidx = NumBatches
    /\ ret' = FracDiv(epoch_loss, NumBatches)
    /\ IF phase = "test"
          THEN phase' = "done" /\ epoch' = epoch
          ELSE /\ epoch' = epoch + 1
               /\ phase' = (IF epoch + 1 < n_epochs THEN "train" ELSE "test")
    /\ pc' = "enter"
    /\ UNCHANGED <<bidx, training, params, grad, opt, epoch_loss, src, trg,
                   teacher_forcing_ratio, fwd, loss, ops, tok, hist>>

Next ==
    \/ TrainEnter \/ TrainBatch \/ FwdEnter \/ FwdStep \/ FwdReturn \/ TrainLoss
    \/ TrainBackward \/ TrainClip \/ TrainStep \/ Accumulate \/ TrainReturn
    \/ EvalEnter \/ EvalBatch \/ EvalLoss \/ EvalReturn

Spec == Init /\ [][Next]_vars

\* ------------------------------------------------------------------ claims on forward
InForward == phase = "call" /\ pc \in {"decode", "returned"}
Returned == phase = "call" /\ pc = "returned"
max_len == Len(trg)
batch_size == Len(src[1])
Top1s(dec_output) == [b \in 1..Len(dec_output) |-> Top1(dec_output[b])]
ZeroRow == [v \in Vocab |-> 0]
DrawSeqs == [1..(max_len - 1) -> Draws]
MaskSeqs == [1..(max_len - 1) -> DropMasks(batch_size, training)]

\* Targets that agree with trg at position 0 and differ from it anywhere after: the
\* other padded batches of the same shape, and trg with every later token overwritten.
Corruptions ==
    {c \in CallTensors(batch_size, max_len) : c[1] = trg[1]}
        \cup {[i \in 1..max_len |-> IF i = 1 THEN trg[1] ELSE [b \in 1..batch_size |-> v]] :
                 v \in Vocab}

\* C1: the tensor forward builds has max_len time steps of batch_size rows, and time
\* step 0 is all zero, during the loop and at the return.
C1_ShapeAndZeroStep ==
    InForward =>
        /\ Len(fwd.outputs) = max_len
        /\ \A i \in 1..max_len : Len(fwd.outputs[i]) = batch_size
        /\ \A b \in 1..batch_size : fwd.outputs[1][b] = ZeroRow

C1_Witness ==
    /\ Returned /\ max_len = MaxLen /\ batch_size = MaxBatch
    /\ \A i \in 2..max_len : \E b \in 1..batch_size : fwd.outputs[i][b] # ZeroRow

\* C2: with teacher forcing off, every decoder input after the first is the argmax of
\* the previous step's output, and the returned scores are the same for every target
\* that has the same first row and for every sequence of draws (same source, same
\* parameters, same dropout masks: none are drawn in evaluation mode).
C2_Autoregressive ==
    (InForward /\ teacher_forcing_ratio = TF_OFF) =>
        /\ fwd.t >= 2 => fwd.output = Top1s(fwd.outputs[fwd.t])
        /\ pc = "returned" =>
              \A trg2 \in Corruptions, draws2 \in DrawSeqs :
                  Forward(src, trg2, TF_OFF, params, training, draws2,
                          hist.enc_mask, hist.masks) = fwd.outputs

\* a call where the target would matter if it were fed back
C2_Witness ==
    /\ Returned /\ teacher_forcing_ratio = TF_OFF /\ max_len = MaxLen
    /\ \E trg2 \in Corruptions :
          Forward(src, trg2, TF_ALWAYS, params, training, hist.draws,
                  hist.enc_mask, hist.masks)
            # Forward(src, trg, TF_ALWAYS, params, training, hist.draws,
                      hist.enc_mask, hist.masks)

\* C3 as stated: with the ratio at 1.0, a second call on the same batch and parameters
\* that sees the same random.random() draws returns the same scores, whatever dropout
\* masks torch's generator hands it.
C3_SameDrawsSameScores ==
    (Returned /\ teacher_forcing_ratio = TF_ALWAYS) =>
        \A enc_mask2 \in DropMasks2(Len(src), batch_size, training), masks2 \in MaskSeqs :
            Forward(src, trg, TF_ALWAYS, params, training, hist.draws, enc_mask2, masks2)
                = fwd.outputs

\* C3 amended: with the ratio at 1.0 the decoder input after step t is trg[t], and a
\* second call that sees the same dropout masks returns the same scores whatever its
\* random.random() draws are.
C3_SameMasksSameScores ==
    (InForward /\ teacher_forcing_ratio = TF_ALWAYS) =>
        /\ fwd.t >= 2 => fwd.output = trg[fwd.t]
        /\ pc = "returned" =>
              \A draws2 \in DrawSeqs :
                  Forward(src, trg, TF_ALWAYS, params, training, draws2,
                          hist.enc_mask, hist.masks) = fwd.outputs

\* a training-mode call where forcing made a difference: some step's argmax is not the target
C3_Witness ==
    /\ Returned /\ teacher_forcing_ratio = TF_ALWAYS /\ training /\ max_len = MaxLen
    /\ \E i \in 2..(max_len - 1) : Top1s(fwd.outputs[i]) # trg[i]
    /\ \E i \in 1..Len(hist.draws) : hist.draws[i] # 0

\* C7: one encoder call, then decoder calls at t = 1, 2, .., max_len - 1 in that order,
\* each on the state the previous call (the encoder, for the first) returned; the call
\* returns only after the last of them, and it does return: every iteration is defined
\* (its index is inside trg and outputs) and moves t one closer to max_len, where the
\* loop ends.
C7_Calls ==
    InForward =>
        /\ fwd.enc_calls = 1
        /\ fwd.dec_calls = [i \in 1..(fwd.t - 1) |-> i]
        /\ fwd.t <= (IF max_len > 1 THEN max_len ELSE 1)
        /\ pc = "returned" => Len(fwd.dec_calls) = max_len - 1
        /\ (pc = "decode" /\ ~LoopDone(fwd, trg)) =>
              /\ fwd.t + 1 \in DOMAIN trg
              /\ fwd.t + 1 \in DOMAIN fwd.outputs

C7_Thread ==
    /\ (pc = "forward" /\ pc' = "decode") =>
          fwd'.hidden = EncoderForward(src, params, training, hist'.enc_mask).hidden
    /\ (pc = "decode" /\ pc' = "decode") =>
          /\ fwd'.t = fwd.t + 1
          /\ fwd'.hidden = DecoderForward(fwd.output, fwd.hidden, fwd.encoder_outputs, params,
                                          training, hist'.masks[fwd.t]).hidden

C7_LinearProgression ==
    /\ [](phase = "call" => C7_Calls)
    /\ [][phase = "call" => C7_Thread]_vars

\* a full-length call that went on after <eos> had been fed to the decoder
C7_Witness ==
    /\ Returned /\ max_len = MaxLen /\ Len(fwd.dec_calls) = MaxLen - 1
    /\ \E b \in 1..batch_size : trg[2][b] = EOS
    /\ teacher_forcing_ratio = TF_ALWAYS

\* C9: one draw per decoder call; after step t the next decoder input is trg[t] for the
\* whole batch or the argmax for the whole batch; of the max_len - 1 draws of a call the
\* last one decides an input no decoder call receives.
C9_OneDrawPerStep ==
    InForward =>
        /\ fwd.draws = Len(fwd.dec_calls)
        /\ fwd.t >= 2 => \/ fwd.output = trg[fwd.t]
                         \/ fwd.output = Top1s(fwd.outputs[fwd.t])
        /\ pc = "returned" =>
              /\ fwd.draws = max_len - 1
              /\ fwd.draws_used = (IF max_len >= 2 THEN max_len - 2 ELSE 0)

\* a call on several columns where target and argmax differ in every column at some step
C9_Witness ==
    /\ Returned /\ batch_size = MaxBatch /\ max_len = MaxLen
    /\ teacher_forcing_ratio = TF_DEFAULT
    /\ \E i \in 2..max_len : \A b \in 1..batch_size : trg[i][b] # Top1(fwd.outputs[i][b])
    /\ fwd.draws = MaxLen - 1 /\ fwd.draws_used = MaxLen - 2

\* ------------------------------------------------------------------ claims on the loop
InLoop == phase \in {"train", "valid", "test"}
\* the loss of the batch has just been computed
LossJustComputed == InLoop /\ ops # <<>> /\ ops[Len(ops)] = "loss"

\* positions the loss is claimed not to look at: time step 0 and padded targets
Masked(i, b) == i = 1 \/ trg[i][b] = pad_idx
MaskedCells == {c \in (1..Len(trg)) \X (1..Len(trg[1])) : Masked(c[1], c[2])}
CountedCells == ((1..Len(trg)) \X (1..Len(trg[1]))) \ MaskedCells
PerturbRows == {[v \in Vocab |-> (k * (v + 1)) % Mod] : k \in 0..(Mod - 1)}
Overwrite(outputs, cells, row) ==
    Table([i \in 1..Len(outputs) |-> Table([b \in 1..Len(outputs[i]) |->
              IF <<i, b>> \in cells THEN row ELSE outputs[i][b]])])

\* the sum and the number of the losses of the positions that are not masked
DirectMean(outputs) ==
    [sum |-> SumSeq(Table([i \in 1..Len(trg) |-> SumSeq(Table([b \in 1..Len(trg[1]) |->
                 IF Masked(i, b) THEN 0 ELSE NLL(outputs[i][b], trg[i][b])]))])),
     n |-> Cardinality(CountedCells)]

\* C4: the loss of a batch is the mean over the non-pad positions of time steps
\* 1..L-1, and it stays the same when the scores at time step 0 and at padded targets
\* are overwritten.
C4_MaskedLoss ==
    LossJustComputed =>
        /\ loss = DirectMean(fwd.outputs)
        /\ \A row \in PerturbRows, cells \in SUBSET MaskedCells :
              Criterion(Overwrite(fwd.outputs, cells, row), trg) = loss

\* a batch with a padded target whose scores are not the overwriting row, and a counted
\* position whose scores do change the loss
C4_Witness ==
    /\ LossJustComputed
    /\ \E c \in MaskedCells : c[1] > 1 /\ fwd.outputs[c[1]][c[2]] # ZeroRow
    /\ \E c \in CountedCells, row \in PerturbRows :
          Criterion(Overwrite(fwd.outputs, {c}, row), trg) # loss

TrainOrder == <<"zero_grad", "forward", "loss", "backward", "clip", "step">>
OpsDone ==
    CASE pc \in {"forward", "decode"} -> 1
      [] pc = "loss" -> 2
      [] pc = "backward" -> 3
      [] pc = "clip" -> 4
      [] pc = "step" -> 5
      [] pc = "accum" -> 6
      [] OTHER -> 0

\* C5: train handles every batch in the order zero_grad, forward (with teacher
\* forcing), loss, backward, clip, step; one optimizer step per batch; the gradient
\* that is clipped and stepped on is the gradient of that batch alone.
C5_TrainOrder ==
    (phase = "train" /\ pc # "enter") =>
        /\ ops = SubSeq(TrainOrder, 1, OpsDone)
        /\ pc \in {"forward", "decode"} => teacher_forcing_ratio = TF_DEFAULT
        /\ opt.steps = epoch * NumBatches + bidx + (IF pc = "accum" THEN 1 ELSE 0)
        /\ pc = "clip" => grad = BatchGrad(fwd.outputs, trg)
        /\ pc \in {"step", "accum"} => grad = ClipGradNorm(BatchGrad(fwd.outputs, trg), clip)

\* a later batch whose gradient has the opposite sign of the one left by the batch before
C5_Witness ==
    /\ phase = "train" /\ pc = "clip" /\ bidx > 0
    /\ grad < 0 /\ opt.exp_avg > 0 /\ opt.steps = epoch * NumBatches + bidx

\* C6: evaluate calls forward with teacher forcing off, does no backward, clip or
\* optimizer step, and no step of it changes the parameters, their gradients or the
\* optimizer state.
C6_EvalOps ==
    phase \in EvalPhases =>
        /\ pc \in {"forward", "decode"} => teacher_forcing_ratio = TF_OFF
        /\ pc \notin {"enter", "fetch"} =>
              \A i \in 1..Len(ops) : ops[i] \in {"forward", "loss"}

learned == <<params, grad, opt>>
InEvaluate == phase \in EvalPhases

C6_EvalFrame ==
    /\ []C6_EvalOps
    /\ [][InEvaluate => UNCHANGED learned]_vars

\* the last batch of a test pass that had a gradient and an optimizer state to keep
C6_Witness ==
    /\ phase = "test" /\ pc = "accum" /\ bidx = NumBatches - 1
    /\ grad # 0 /\ opt.steps = n_epochs * NumBatches /\ opt.exp_avg # 0
    /\ BatchGrad(fwd.outputs, trg) # 0

\* C8 as stated: the value train / evaluate returns is the per-token average loss of
\* the pass: the sum of the losses of all its non-pad targets over their number.
AfterCall == pc = "enter" /\ ~(phase = "train" /\ epoch = 0)
C8_ReturnIsPerTokenAverage ==
    AfterCall => ret.num * tok.n = tok.sum * ret.den

\* C10: forward runs in training mode inside train and in evaluation mode inside
\* evaluate, in every epoch and in the test pass.
C10_Mode ==
    (InLoop /\ pc \in {"forward", "decode"}) => (training <=> phase = "train")

\* a train call that follows an evaluate call
C10_Witness ==
    /\ phase = "train" /\ epoch > 0 /\ pc = "decode" /\ training
    /\ fwd.t > 1

====
